---------------------------- MODULE Spec2Model ----------------------------
(***************************************************************************)
(* State-machine model of roslaunch-to-dot.py: the LaunchFile class (the   *)
(* recursive launch-file parser, its substitution resolver, the enable     *)
(* predicate, the global registry VISITED_LAUNCH_FILES) and the dot        *)
(* emitter.                                                                *)
(*                                                                         *)
(* Text is a sequence of tokens.  The token alphabet is a prefix code in   *)
(* which every multi-letter token starts with a letter that is not itself  *)
(* a token, so two token sequences are equal exactly when the Python       *)
(* strings they spell are equal, and str.replace / re.search act on        *)
(* token boundaries.                                                       *)
(***************************************************************************)
EXTENDS Integers, Sequences, FiniteSets, TLC

(***************************************************************************)
(* Bounds of the model                                                     *)
(***************************************************************************)
\* number of resolutions run one after another in the same process
MaxRuns == 2
\* longest element list drawn for the root document of the graph family
MaxElems == 2
\* iterations of the resolver's while loop that are followed before the
\* resolution is reported as not terminating
MaxResolveIter == 4

(***************************************************************************)
(* Tokens and text                                                         *)
(***************************************************************************)
\* tokens matched by [a-zA-Z_]
AlphaTok ==
  { "arg", "env", "find", "anon", "optenv", "bogus",
    "true", "True", "false", "maybe", "launch",
    "p", "q", "r", "x", "y", "z", "u", "v", "w", "k", "d", "n",
    "HOME", "NOVAR", "_" }

\* tokens matched by [0-9]
DigitTok == { "0", "1", "999" }

\* str.lower() on one token
LowerTok(t) == IF t = "True" THEN "true" ELSE t

lower(text) == [i \in 1..Len(text) |-> LowerTok(text[i])]

\* the empty string
Empty == << >>

RECURSIVE RunEnd(_, _, _)
\* last index of the longest run of tokens of class S that starts at i
\* (i - 1 when the run is empty)
RunEnd(text, i, S) ==
  IF i <= Len(text) /\ text[i] \in S THEN RunEnd(text, i + 1, S) ELSE i - 1

\* re.match of \$\(([a-zA-Z_]+) ([a-zA-Z0-9_]+)\) at position i:
\* [s, j, e] = start, end of the keyword, end of the match; s = 0 for none
MatchAt(text, i) ==
  LET none == [s |-> 0, j |-> 0, e |-> 0]
  IN IF text[i] # "$(" THEN none
     ELSE LET j == RunEnd(text, i + 1, AlphaTok)
          IN IF j < i + 1 \/ j + 1 > Len(text) \/ text[j + 1] # " " THEN none
             ELSE LET k == RunEnd(text, j + 2, AlphaTok \cup DigitTok)
                  IN IF k < j + 2 \/ k + 1 > Len(text) \/ text[k + 1] # ")"
                     THEN none
                     ELSE [s |-> i, j |-> j, e |-> k + 1]

RECURSIVE SearchFrom(_, _)
SearchFrom(text, i) ==
  IF i > Len(text) THEN [s |-> 0, j |-> 0, e |-> 0]
  ELSE LET m == MatchAt(text, i)
       IN IF m.s # 0 THEN m ELSE SearchFrom(text, i + 1)

\* pattern.search(text): the leftmost match
Search(text) == SearchFrom(text, 1)

IsPrefixAt(text, pat, i) ==
  /\ i + Len(pat) - 1 <= Len(text)
  /\ SubSeq(text, i, i + Len(pat) - 1) = pat

RECURSIVE ReplaceFrom(_, _, _, _)
ReplaceFrom(text, pat, rep, i) ==
  IF i > Len(text) THEN << >>
  ELSE IF IsPrefixAt(text, pat, i)
       THEN rep \o ReplaceFrom(text, pat, rep, i + Len(pat))
       ELSE << text[i] >> \o ReplaceFrom(text, pat, rep, i + 1)

\* text.replace(pat, rep), pat not empty: every non-overlapping occurrence,
\* left to right
Replace(text, pat, rep) == ReplaceFrom(text, pat, rep, 1)

\* "Error:" in output
ContainsTok(text, t) == \E i \in 1..Len(text) : text[i] = t


(***************************************************************************)
(* External collaborators: the environment and the rospack command         *)
(***************************************************************************)
\* os.environ: HOME is set, NOVAR is not
environ == (<< "HOME" >> :> << "/", "u" >>)

\* commands.getoutput("rospack find <package>"): the path of a known
\* package, an error report for any other.  A path may hold any characters:
\* package r lives in a directory named $(find q) and package w in one
\* named $(find w)
rospack(package) ==
  IF package = << "p" >> THEN << "/", "p" >>
  ELSE IF package = << "q" >> THEN << "/", "q" >>
  ELSE IF package = << "r" >> THEN << "/" >> \o << "$(", "find", " ", "q", ")" >>
  ELSE IF package = << "w" >> THEN << "/" >> \o << "$(", "find", " ", "w", ")" >>
  ELSE << "Error:", " " >> \o package

\* random.randint(0, 999): the values drawn in the model
RandInts == { << "0" >>, << "999" >> }

(***************************************************************************)
(* Results of the operations that can raise                                *)
(***************************************************************************)
\* a value returned normally, with the random draws still unused
Ok(text, rnd) == [ok |-> TRUE, text |-> text, err |-> "", rnd |-> rnd]

\* an exception
Raise(err) == [ok |-> FALSE, text |-> << >>, err |-> err, rnd |-> << >>]

\* the while loop of the resolver was cut at MaxResolveIter iterations
Hang == "nontermination"

(***************************************************************************)
(* Substitution argument handlers                                          *)
(***************************************************************************)
onAnonSubstitutionArg(name, rnd) ==
  Ok(name \o << "-" >> \o Head(rnd), Tail(rnd))

onArgSubstitutionArg(args, arg, rnd) ==
  IF arg \notin DOMAIN args
  THEN Raise("UndefinedArgument")
  ELSE Ok(args[arg], rnd)

\* len(env.split(" "))
SplitParts(env) == 1 + Cardinality({i \in 1..Len(env) : env[i] = " "})

\* Both branches read a name that is bound nowhere (arg, defaultValue):
\* Python raises NameError when it evaluates it.  With more than two parts
\* the unpacking "env, default = parts" raises ValueError first.
onEnvSubstitutionArg(env, rnd) ==
  IF SplitParts(env) = 1
  THEN Raise("NameError")
  ELSE IF SplitParts(env) # 2
       THEN Raise("ValueError")
       ELSE Raise("NameError")

onFindSubstitutionArg(package, rnd) ==
  LET output == rospack(package)
  IN IF ContainsTok(output, "Error:")
     THEN Raise("PackageResolution")
     ELSE Ok(output, rnd)

\* the keys of self.__substitutionArgFnMap
substitutionArgFnMap ==
  { << "find" >>, << "arg" >>, << "env" >>, << "optenv" >>, << "anon" >> }

\* substitutionFn(argument) for the handler registered under subArg
substitutionFn(subArg, args, argument, rnd) ==
  IF subArg = << "find" >> THEN onFindSubstitutionArg(argument, rnd)
  ELSE IF subArg = << "arg" >> THEN onArgSubstitutionArg(args, argument, rnd)
  ELSE IF subArg \in { << "env" >>, << "optenv" >> }
       THEN onEnvSubstitutionArg(argument, rnd)
       ELSE onAnonSubstitutionArg(argument, rnd)

(***************************************************************************)
(* __resolveText                                                           *)
(***************************************************************************)
RECURSIVE resolveLoop(_, _, _, _)

\* the text is returned after the first replacement
resolveReplaceOnce(args, text, fullText, resolved, fuel) ==
  IF ~resolved.ok THEN resolved
  ELSE Ok(Replace(text, fullText, resolved.text), resolved.rnd)

\* the end of one iteration: the text is updated with the resolved value
\* and searched again from its start
resolveReplace(args, text, fullText, resolved, fuel) ==
  IF ~resolved.ok THEN resolved
  ELSE resolveLoop(args, Replace(text, fullText, resolved.text),
                   resolved.rnd, fuel - 1)

\* one iteration of the while loop, for the match results
resolveMatch(args, text, results, rnd, fuel) ==
  IF results.s = 0 THEN Ok(text, rnd)
  ELSE IF fuel = 0 THEN Raise(Hang)
  ELSE IF SubSeq(text, results.s + 1, results.j) \notin substitutionArgFnMap
       THEN Raise("UnresolvedSubstitution")
       ELSE resolveReplace(args, text,
              SubSeq(text, results.s, results.e),
              substitutionFn(SubSeq(text, results.s + 1, results.j), args,
                             SubSeq(text, results.j + 2, results.e - 1), rnd),
              fuel)

resolveLoop(args, text, rnd, fuel) ==
  resolveMatch(args, text, Search(text), rnd, fuel)

resolveText(args, text, rnd) == resolveLoop(args, text, rnd, MaxResolveIter)

(***************************************************************************)
(* XML elements                                                            *)
(***************************************************************************)
\* an element: its tag, its attributes (attribute name -> text) and its
\* child elements
El(tag, attrib, children) ==
  [tag |-> tag, attrib |-> attrib, children |-> children]

NoAttr == << >>

\* element.attrib.get(attribute, None) is not None
Has(attrib, a) == a \in DOMAIN attrib

(***************************************************************************)
(* __isEnabled                                                             *)
(***************************************************************************)
Truthy == { << "true" >>, << "1" >> }
Falsy  == { << "false" >>, << "0" >> }

\* [ok, en, err, rnd]: en is the value returned when ok
Enabled(en, rnd) == [ok |-> TRUE, en |-> en, err |-> "", rnd |-> rnd]
EnRaise(err) == [ok |-> FALSE, en |-> FALSE, err |-> err, rnd |-> << >>]

\* the decision on 'unless' without folding the letter case
isEnabledUnlessCaseExact(unlessCase) ==
  IF ~unlessCase.ok THEN EnRaise(unlessCase.err)
  ELSE IF unlessCase.text \in Truthy
       THEN Enabled(FALSE, unlessCase.rnd)
  ELSE IF unlessCase.text \notin Falsy
       THEN EnRaise("InvalidBoolean")
       ELSE Enabled(TRUE, unlessCase.rnd)

\* the decision on the resolved 'unless' attribute, lines 857-862
isEnabledUnlessCase(unlessCase) ==
  IF ~unlessCase.ok THEN EnRaise(unlessCase.err)
  ELSE IF lower(unlessCase.text) \in Truthy
       THEN Enabled(FALSE, unlessCase.rnd)
  ELSE IF lower(unlessCase.text) \notin Falsy
       THEN EnRaise("InvalidBoolean")
       ELSE Enabled(TRUE, unlessCase.rnd)

\* the 'unless' half of __isEnabled, lines 854-864
isEnabledUnless(attrib, args, rnd) ==
  IF ~Has(attrib, "unless") THEN Enabled(TRUE, rnd)
  ELSE isEnabledUnlessCase(resolveText(args, attrib["unless"], rnd))

\* the decision on the resolved 'if' attribute, lines 848-852, and then the
\* 'unless' half
isEnabledIfCase(attrib, args, ifCase) ==
  IF ~ifCase.ok THEN EnRaise(ifCase.err)
  ELSE IF lower(ifCase.text) \in Falsy
       THEN Enabled(FALSE, ifCase.rnd)
  ELSE IF lower(ifCase.text) \notin Truthy
       THEN EnRaise("InvalidBoolean")
       ELSE isEnabledUnless(attrib, args, ifCase.rnd)

isEnabled(attrib, args, rnd) ==
  IF ~Has(attrib, "if") THEN isEnabledUnless(attrib, args, rnd)
  ELSE isEnabledIfCase(attrib, args, resolveText(args, attrib["if"], rnd))

(***************************************************************************)
(* Element parsers: the part of each that runs before any recursion        *)
(***************************************************************************)
\* dict update: self.__args[name] = value
Put(f, k, v) == [x \in DOMAIN f \cup {k} |-> IF x = k THEN v ELSE f[x]]

\* the lookup with the two attributes exchanged
argValueDefaultFirst(attrib) ==
  IF Has(attrib, "default") THEN [some |-> TRUE, text |-> attrib["default"]]
  ELSE IF Has(attrib, "value")
       THEN [some |-> TRUE, text |-> attrib["value"]]
       ELSE [some |-> FALSE, text |-> << >>]

\* arg.attrib.get(ValueAttribute, arg.attrib.get(DefaultAttribute, None)):
\* [some, text], some = FALSE for None
argValue(attrib) ==
  IF Has(attrib, "value") THEN [some |-> TRUE, text |-> attrib["value"]]
  ELSE IF Has(attrib, "default")
       THEN [some |-> TRUE, text |-> attrib["default"]]
       ELSE [some |-> FALSE, text |-> << >>]

\* results of __parseArg: [ok, err, args], args the table afterwards
ArgFail(err, args) == [ok |-> FALSE, err |-> err, args |-> args]

\* lines 623-626, with the resolved name
parseArgValue(args, name, value) ==
  IF ~value.ok THEN ArgFail(value.err, args)
  ELSE [ok |-> TRUE, err |-> "", args |-> Put(args, name, value.text)]

\* lines 622-626
parseArgName(attrib, args, name) ==
  IF ~name.ok THEN ArgFail(name.err, args)
  ELSE parseArgValue(args, name.text,
                     resolveText(args, argValue(attrib).text, name.rnd))

parseArg(attrib, args, rnd) ==
  IF ~Has(attrib, "name") THEN ArgFail("MissingAttribute", args)
  ELSE IF ~argValue(attrib).some THEN ArgFail("ArgumentDeclaration", args)
  ELSE parseArgName(attrib, args, resolveText(args, attrib["name"], rnd))

\* results of __parseInclude up to the resolved filename:
\* [ok, err, none, resolved], none = TRUE when None is returned
IncFail(err) == [ok |-> FALSE, err |-> err, none |-> FALSE, resolved |-> << >>]

\* line 647
parseIncludeResolved(resolved) ==
  IF ~resolved.ok THEN IncFail(resolved.err)
  ELSE [ok |-> TRUE, err |-> "", none |-> FALSE, resolved |-> resolved.text]

\* lines 635-647, with the value of __isEnabled
parseIncludeEnabled(attrib, args, en) ==
  IF ~en.ok THEN IncFail(en.err)
  ELSE IF ~en.en
       THEN [ok |-> TRUE, err |-> "", none |-> TRUE, resolved |-> << >>]
  ELSE IF ~Has(attrib, "file") THEN IncFail("MissingAttribute")
  ELSE parseIncludeResolved(resolveText(args, attrib["file"], en.rnd))

parseInclude(attrib, args, rnd) ==
  parseIncludeEnabled(attrib, args, isEnabled(attrib, args, rnd))

\* the Node named tuple
Node(launchFile, package, nodeType, name, isTestNode) ==
  [launchFile |-> launchFile, package |-> package, nodeType |-> nodeType,
   name |-> name, isTestNode |-> isTestNode]

NoNode == Node(0, << >>, << >>, << >>, FALSE)

\* results of __parseNode and __parseTestNode: [ok, err, none, node]
NodeFail(err) == [ok |-> FALSE, err |-> err, none |-> FALSE, node |-> NoNode]

\* lines 678-680, 701-703
parseNodeName(self, pkg, nodeType, name, isTestNode) ==
  IF ~name.ok THEN NodeFail(name.err)
  ELSE [ok |-> TRUE, err |-> "", none |-> FALSE,
        node |-> Node(self, pkg, nodeType, name.text, isTestNode)]

\* lines 677, 700
parseNodeType(self, attrib, args, pkg, nodeType, nameAttr, isTestNode) ==
  IF ~nodeType.ok THEN NodeFail(nodeType.err)
  ELSE parseNodeName(self, pkg, nodeType.text,
                     resolveText(args, attrib[nameAttr], nodeType.rnd),
                     isTestNode)

\* lines 676, 699
parseNodePkg(self, attrib, args, pkg, nameAttr, isTestNode) ==
  IF ~pkg.ok THEN NodeFail(pkg.err)
  ELSE parseNodeType(self, attrib, args, pkg.text,
                     resolveText(args, attrib["type"], pkg.rnd),
                     nameAttr, isTestNode)

\* lines 666-680, 689-703, with the value of __isEnabled
parseNodeEnabled(self, attrib, args, en, nameAttr, isTestNode) ==
  IF ~en.ok THEN NodeFail(en.err)
  ELSE IF ~en.en
       THEN [ok |-> TRUE, err |-> "", none |-> TRUE, node |-> NoNode]
  ELSE IF ~Has(attrib, "pkg") \/ ~Has(attrib, "type")
          \/ ~Has(attrib, nameAttr)
       THEN NodeFail("MissingAttribute")
  ELSE parseNodePkg(self, attrib, args,
                    resolveText(args, attrib["pkg"], en.rnd),
                    nameAttr, isTestNode)

\* __parseNode (nameAttr = "name", isTestNode = FALSE) and __parseTestNode
\* (nameAttr = "test-name", isTestNode = TRUE)
parseNode(self, attrib, args, rnd, nameAttr, isTestNode) ==
  parseNodeEnabled(self, attrib, args, isEnabled(attrib, args, rnd),
                   nameAttr, isTestNode)

(***************************************************************************)
(* The launch files and elements the resolutions are run on                *)
(***************************************************************************)
\* a document on disk: wf = FALSE when ET.parse raises on it
Doc(elems) == [wf |-> TRUE, elems |-> elems]
Malformed  == [wf |-> FALSE, elems |-> << >>]

\* /p/launch/x.launch, /q/launch/y.launch and /p/launch/z.launch exist
PX == << "/", "p", "/", "launch", "/", "x", ".", "launch" >>
PY == << "/", "q", "/", "launch", "/", "y", ".", "launch" >>
PZ == << "/", "p", "/", "launch", "/", "z", ".", "launch" >>
\* /q/launch/n.launch and /r/n.launch do not exist
PM == << "/", "q", "/", "launch", "/", "n", ".", "launch" >>
PN == << "/", "r", "/", "n", ".", "launch" >>

\* $(keyword argument)
Sub(keyword, argument) == << "$(", keyword, " ", argument, ")" >>

Attr1(a, x) == a :> x
Attr3(a, x, b, y, c, z) == (a :> x) @@ (b :> y) @@ (c :> z)

Include(file) == El("include", Attr1("file", file), << >>)

NodeEl(pkg, type, name) ==
  El("node", Attr3("pkg", pkg, "type", type, "name", name), << >>)

TestEl(pkg, type, name) ==
  El("test", Attr3("pkg", pkg, "type", type, "test-name", name), << >>)

\* <arg name="u"/>: neither value nor default
ArgNeither == El("arg", Attr1("name", << "u" >>), << >>)

ArgValue(name, value) ==
  El("arg", ("name" :> name) @@ ("value" :> value), << >>)

ArgDefault(name, default) ==
  El("arg", ("name" :> name) @@ ("default" :> default), << >>)

ArgBoth(name, value, default) ==
  El("arg", ("name" :> name) @@ ("value" :> value) @@ ("default" :> default),
     << >>)

NodeP == NodeEl(<< "p" >>, << "d" >>, << "n" >>)
NodeQ == NodeEl(<< "q" >>, << "d" >>, << "n" >>)

\* all sequences over S of length at most n
SeqsUpTo(S, n) == UNION { [1..k -> S] : k \in 0..n }

\* the elements of the include graphs
GraphElems ==
  { Include(PX), Include(PY), Include(PZ), Include(PM), Include(PN),
    Include(Sub("find", "q") \o << "/", "launch", "/", "y", ".", "launch" >>),
    NodeP }

\* the documents of y.launch and z.launch in the include graphs
GraphDocsY ==
  { Doc(<< NodeQ >>), Doc(<< Include(PX) >>), Doc(<< Include(PZ) >>),
    Malformed, Doc(<< Include(PZ), ArgNeither >>) }

GraphDocsZ ==
  { Doc(<< NodeP >>), Doc(<< Include(PY) >>), Malformed }

\* the values given to 'if' and 'unless'; Absent stands for no attribute
Absent == << "Absent" >>

GateValues ==
  { Absent, << "true" >>, << "True" >>, << "1" >>, << "false" >>, << "0" >>,
    << "maybe" >> }

\* attributes with the 'if' and 'unless' values added
Gate(attrib, ifCase, unlessCase) ==
  attrib
  @@ (IF ifCase = Absent THEN NoAttr ELSE "if" :> ifCase)
  @@ (IF unlessCase = Absent THEN NoAttr ELSE "unless" :> unlessCase)

\* the elements of the single-file documents
FileElems ==
  { ArgBoth(<< "u" >>, << "v" >>, << "w" >>),
    ArgDefault(<< "u" >>, << "w" >>),
    ArgNeither,
    ArgValue(<< "k" >>, Sub("arg", "u")),
    ArgDefault(<< "y" >>, << "True" >>),
    El("node", Gate(NodeP.attrib, Absent, Sub("arg", "y")), << >>),
    NodeEl(<< "p" >>, << "d" >>, Sub("arg", "u") \o << "_", "n" >>),
    NodeEl(<< "p" >>, << "d" >>, Sub("arg", "k")),
    El("node", ("pkg" :> << "p" >>) @@ ("type" :> << "d" >>), << >>),
    NodeEl(<< "p" >>, << "d" >>, Sub("bogus", "d")),
    NodeEl(<< "p" >>, << "d" >>, Sub("env", "HOME")),
    NodeEl(<< "p" >>, << "d" >>, Sub("env", "NOVAR")),
    NodeEl(<< "p" >>, << "d" >>, << "$(", "optenv", " ", "HOME", " ", "d", ")" >>),
    NodeEl(<< "p" >>, << "d" >>, << "$(", "optenv", " ", "NOVAR", " ", "d", ")" >>),
    NodeEl(<< "p" >>, << "d" >>, Sub("anon", "n")),
    TestEl(<< "q" >>, << "d" >>, << "n" >>),
    TestEl(<< "q" >>, << "d" >>, Sub("arg", "u")),
    Include(<< "/", "q", "/", "launch", "/" >> \o Sub("arg", "y")
            \o << ".", "launch" >>),
    El("group", Attr1("if", Sub("arg", "y")),
       << NodeEl(<< "p" >>, << "d" >>, << "v" >>) >>),
    El("group", NoAttr, << NodeEl(<< "p" >>, << "d" >>, << "v" >>), ArgNeither,
                            NodeEl(<< "p" >>, << "d" >>, << "w" >>) >>),
    El("group", NoAttr, << ArgValue(<< "u" >>, << "v" >>) >>),
    Include(PY),
    Include(PZ),
    El("param", Attr1("name", << "n" >>), << >>) }

\* y.launch and z.launch beside a single-file document: y.launch declares
\* k, includes the malformed z.launch and uses the u of its parent
FileDocY ==
  Doc(<< ArgValue(<< "k" >>, << "w" >>), Include(PZ),
         NodeEl(<< "q" >>, << "d" >>, Sub("arg", "u")) >>)

FileDocZ == Malformed

\* one element of each gated kind; the group holds an argument, an include
\* and a node
GatedKinds ==
  { Include(PY), NodeP, TestEl(<< "q" >>, << "d" >>, << "n" >>),
    El("group", NoAttr,
       << ArgValue(<< "u" >>, << "v" >>), Include(PY), NodeP >>) }

GatedElems ==
  { [e EXCEPT !.attrib = Gate(@, i, u)] :
      e \in GatedKinds, i \in GateValues, u \in GateValues }

\* the names of the nodes of the documents that exercise the resolver:
\* plain text, text that only looks like a substitution, one expression
\* twice, a value that brings in another expression, a value that brings in
\* the expression it replaced, an unknown keyword after a known one
ResolveNames ==
  { << "n", "-", "1" >>,
    << "$(", "find", " ", "q" >>,
    << "$(", "find", "-", "q", ")" >>,
    Sub("find", "p") \o Sub("find", "p"),
    Sub("anon", "n") \o << "/" >> \o Sub("anon", "n"),
    Sub("find", "r") \o << "/" >> \o Sub("find", "p"),
    Sub("find", "w"),
    Sub("find", "x"),
    Sub("find", "q") \o Sub("bogus", "d") }

ResolveElems == { NodeEl(<< "p" >>, << "d" >>, name) : name \in ResolveNames }

\* the file systems a process is started on
FileSystems ==
  { (PX :> Doc(x)) @@ (PY :> y) @@ (PZ :> z) :
      x \in SeqsUpTo(GraphElems, MaxElems), y \in GraphDocsY, z \in GraphDocsZ }
  \cup
  { (PX :> Doc(x)) @@ (PY :> FileDocY) @@ (PZ :> FileDocZ) :
      x \in SeqsUpTo(FileElems, MaxElems) }
  \cup
  { (PX :> Doc(<< g, NodeEl(<< "p" >>, << "d" >>, << "w" >>) >>))
    @@ (PY :> Doc(<< NodeQ >>)) @@ (PZ :> Malformed) :
      g \in GatedElems }
  \cup
  { (PX :> Doc(x)) @@ (PY :> Doc(<< NodeQ >>)) @@ (PZ :> Malformed) :
      x \in SeqsUpTo(ResolveElems, MaxElems) }

(***************************************************************************)
(* State                                                                   *)
(***************************************************************************)
VARIABLES
  fs,                    \* the launch files on disk: path -> document
  VISITED_LAUNCH_FILES,  \* the module-level set of visited filenames
  heap,                  \* the LaunchFile objects of the current resolution
  stack,                 \* the call stack, innermost frame first
  exc,                   \* the exception being propagated, if any
  status,                \* where the driver is
  runs,                  \* resolutions started in this process
  results,               \* the trees of the finished resolutions
  parseLog,              \* the calls of ET.parse in this resolution
  dot                    \* what toDot returned for the current tree

vars == << fs, VISITED_LAUNCH_FILES, heap, stack, exc, status, runs, results,
           parseLog, dot >>

\* os.path.exists
exists(filename) == filename \in DOMAIN fs

\* a new LaunchFile object, lines 101-135; hasVisited keeps the value of the
\* constructor's local variable
NewLaunchFile(filename, hasVisited) ==
  [filename |-> filename, missing |-> ~exists(filename), args |-> << >>,
   includes |-> << >>, cycles |-> << >>, nodes |-> << >>,
   hasVisited |-> hasVisited]

\* what an element found when it started: the object being filled and the
\* registry (kept for the properties, the program does not read it)
Snap(obj, visited) == [obj |-> obj, visited |-> visited]
NoSnap ==
  Snap([filename |-> << >>, missing |-> FALSE, args |-> << >>,
        includes |-> << >>, cycles |-> << >>, nodes |-> << >>,
        hasVisited |-> FALSE], {})

\* an exception in flight: err names it, tag is the element whose processing
\* it is leaving, origin the element or call that raised it, snap what the
\* element with that tag found when it started
Exc(err, tag, origin, snap) ==
  [err |-> err, tag |-> tag, origin |-> origin, snap |-> snap]
NoExc == Exc("", "", "", NoSnap)

\* a frame of __parseLaunchElements: the object being filled, the elements
\* still to process, what called it (the constructor of the root, the
\* constructor run by an include, or __parseGroup) and what the calling
\* element found when it started
Frame(self, rest, via, snap) ==
  [self |-> self, rest |-> rest, via |-> via, snap |-> snap]

\* the guard without its test of hasVisited
ShouldParseAlways(hasVisited, missing) == ~missing

\* the guard of the parse, lines 138-142
ShouldParse(hasVisited, missing) == ~hasVisited /\ ~missing

\* the cycle of an include is never recorded
markCycleNever(h, self, resolved, visited) == h

\* lines 650-654: an include of a visited filename is recorded as a cycle
markCycle(h, self, resolved, visited) ==
  IF resolved \in visited
  THEN [h EXCEPT ![self].cycles = Append(@, resolved)]
  ELSE h

\* the try block around __parseGroup is left out
CatchesNoGroup(tag) == tag \in { "include", "node", "test" }

\* the try blocks of __parseLaunchElements: the tags whose parse is guarded
Catches(tag) == tag \in { "include", "group", "node", "test" }

\* number of random draws an element can need
AnonCount(text) == Cardinality({i \in 1..Len(text) : text[i] = "anon"})

RECURSIVE SumAnon(_, _)
SumAnon(attrib, names) ==
  IF names = {} THEN 0
  ELSE LET a == CHOOSE x \in names : TRUE
       IN AnonCount(attrib[a]) + SumAnon(attrib, names \ {a})

NumDraws(attrib, args) ==
  IF \E k \in DOMAIN args : ContainsTok(args[k], "anon")
  THEN 5 * MaxResolveIter
  ELSE SumAnon(attrib, DOMAIN attrib)

\* the sequences of values randint may return during one element
Rnds(attrib, args) == [1..NumDraws(attrib, args) -> RandInts]

Top == Head(stack)
Cur == Head(Top.rest)
Running == status = "running" /\ exc = NoExc /\ stack # << >>
AtElement(tag) == Running /\ Top.rest # << >> /\ Cur.tag = tag

\* the stack with the current element consumed
Advance == << [Top EXCEPT !.rest = Tail(@)] >> \o Tail(stack)

\* an exception raised while the element with this tag is processed; a cut
\* resolver loop means the program never returns
Throw(err, tag) ==
  IF err = Hang
  THEN /\ status' = "hung"
       /\ exc' = exc
  ELSE /\ status' = status
       /\ exc' = Exc(err, tag, tag, Snap(heap[Top.self], VISITED_LAUNCH_FILES))

(***************************************************************************)
(* The entity tree reachable from an object                                *)
(***************************************************************************)
\* only the object and its direct includes, without the recursion
getAllLaunchFilesDirect(h, o) == << o >> \o h[o].includes

RECURSIVE getAllLaunchFiles(_, _)
\* the object ids, in the order of the list the method returns
getAllLaunchFiles(h, o) ==
  LET RECURSIVE children(_)
      children(i) ==
        IF i > Len(h[o].includes) THEN << >>
        ELSE getAllLaunchFiles(h, h[o].includes[i]) \o children(i + 1)
  IN << o >> \o children(1)

\* the set of filenames of a list of objects
Filenames(h, ids) == { h[ids[i]].filename : i \in 1..Len(ids) }

getNumLaunchFiles(h, o) == Cardinality(Filenames(h, getAllLaunchFiles(h, o)))

RECURSIVE Tree(_, _)
\* the value of the tree under o: every field of every object, with nodes
\* naming their owner by filename
Tree(h, o) ==
  [filename |-> h[o].filename,
   missing  |-> h[o].missing,
   args     |-> h[o].args,
   cycles   |-> h[o].cycles,
   nodes    |-> [i \in 1..Len(h[o].nodes) |->
                   [h[o].nodes[i] EXCEPT !.launchFile = h[@].filename]],
   includes |-> [i \in 1..Len(h[o].includes) |-> Tree(h, h[o].includes[i])]]

\* what the caller of LaunchFile(root) holds afterwards
Result(root, ok, tree) == [root |-> root, ok |-> ok, tree |-> tree]

(***************************************************************************)
(* LaunchFile.__init__                                                     *)
(***************************************************************************)
\* the filename is not recorded
markVisitedNever(visited, filename) == visited

\* VISITED_LAUNCH_FILES.add(filename), line 105
markVisited(visited, filename) == visited \cup {filename}

\* LaunchFile(filename), called with heap h0 and with base as the stack of
\* the caller: the root constructor (via = "root") or the constructor an
\* include runs (via = "include", the caller's frame is Head(base))
Construct(filename, via, base, h0, log0) ==
  LET hasVisited == filename \in VISITED_LAUNCH_FILES
      obj == NewLaunchFile(filename, hasVisited)
      id  == Len(h0) + 1
      snap == IF via = "include"
              THEN Snap(heap[Head(base).self], VISITED_LAUNCH_FILES)
              ELSE NoSnap
  IN /\ VISITED_LAUNCH_FILES' = markVisited(VISITED_LAUNCH_FILES, filename)
     /\ IF ShouldParse(hasVisited, obj.missing)
        THEN \* __parseLaunchFile: ET.parse, then the elements of the root tag
             /\ parseLog' = Append(log0, [filename |-> filename, id |-> id])
             /\ heap' = Append(h0, obj)
             /\ results' = results
             /\ IF fs[filename].wf
                THEN /\ stack' = << Frame(id, fs[filename].elems, via, snap) >>
                               \o base
                     /\ exc' = exc
                     /\ status' = "running"
                ELSE /\ stack' = base
                     /\ exc' = Exc("ParseError", via, "parse", snap)
                     /\ status' = "running"
        ELSE \* nothing is parsed: the constructor returns at once
             /\ parseLog' = log0
             /\ stack' = base
             /\ exc' = exc
             /\ IF via = "include"
                THEN /\ heap' = Append([h0 EXCEPT ![Head(base).self].includes =
                                                    Append(@, id)], obj)
                     /\ status' = "running"
                     /\ results' = results
                ELSE /\ heap' = Append(h0, obj)
                     /\ status' = "done"
                     /\ results' = Append(results,
                                     Result(filename, TRUE,
                                            Tree(Append(h0, obj), id)))

(***************************************************************************)
(* The driver                                                              *)
(***************************************************************************)
\* no graph has been emitted
NoDot == [ok |-> FALSE, clusters |-> << >>, launchEdges |-> << >>,
          nodeEdges |-> << >>, numPackages |-> 0, numLaunchFiles |-> 0,
          numNodes |-> 0]

\* the launch files a resolution may be started on
Roots == { PX, PY }

\* LaunchFile(launchFile) in the main block, after its exists() check; the
\* objects of the previous resolution are no longer referenced
Start(root) ==
  /\ status \in { "idle", "failed", "emitted", "emitFailed" }
  /\ runs < MaxRuns
  /\ exists(root)
  /\ runs' = runs + 1
  /\ dot' = NoDot
  /\ Construct(root, "root", << >>, << >>, << >>)
  /\ UNCHANGED fs

(***************************************************************************)
(* __parseLaunchElements: one step per child element                       *)
(***************************************************************************)
ParseArgStep ==
  /\ AtElement("arg")
  /\ \E rnd \in Rnds(Cur.attrib, heap[Top.self].args) :
       LET r == parseArg(Cur.attrib, heap[Top.self].args, rnd)
       IN IF r.ok
          THEN /\ heap' = [heap EXCEPT ![Top.self].args = r.args]
               /\ UNCHANGED << exc, status >>
          ELSE /\ Throw(r.err, "arg")
               /\ heap' = heap
  /\ stack' = Advance
  /\ UNCHANGED << fs, VISITED_LAUNCH_FILES, runs, results, parseLog, dot >>

ParseIncludeStep ==
  /\ AtElement("include")
  /\ \E rnd \in Rnds(Cur.attrib, heap[Top.self].args) :
       LET r == parseInclude(Cur.attrib, heap[Top.self].args, rnd)
       IN IF ~r.ok
          THEN /\ Throw(r.err, "include")
               /\ stack' = Advance
               /\ UNCHANGED << heap, VISITED_LAUNCH_FILES, parseLog, results >>
          ELSE IF r.none
          THEN /\ stack' = Advance
               /\ UNCHANGED << heap, VISITED_LAUNCH_FILES, parseLog, results,
                               exc, status >>
          ELSE Construct(r.resolved, "include", Advance,
                         markCycle(heap, Top.self, r.resolved,
                                   VISITED_LAUNCH_FILES),
                         parseLog)
  /\ UNCHANGED << fs, runs, dot >>

ParseGroupStep ==
  /\ AtElement("group")
  /\ \E rnd \in Rnds(Cur.attrib, heap[Top.self].args) :
       LET en == isEnabled(Cur.attrib, heap[Top.self].args, rnd)
       IN IF ~en.ok
          THEN /\ Throw(en.err, "group")
               /\ stack' = Advance
          ELSE /\ UNCHANGED << exc, status >>
               /\ IF en.en
                  THEN stack' = << Frame(Top.self, Cur.children, "group",
                                         Snap(heap[Top.self],
                                              VISITED_LAUNCH_FILES)) >>
                                \o Advance
                  ELSE stack' = Advance
  /\ UNCHANGED << fs, VISITED_LAUNCH_FILES, heap, runs, results, parseLog, dot >>

\* the new node is put in front of the list
prependNode(nodes, node) == << node >> \o nodes

\* self.__nodes.append(node), lines 590 and 600
appendNode(nodes, node) == Append(nodes, node)

\* the node and test branches share their shape
NodeStep(tag, nameAttr, isTestNode) ==
  /\ AtElement(tag)
  /\ \E rnd \in Rnds(Cur.attrib, heap[Top.self].args) :
       LET r == parseNode(Top.self, Cur.attrib, heap[Top.self].args, rnd,
                          nameAttr, isTestNode)
       IN IF ~r.ok
          THEN /\ Throw(r.err, tag)
               /\ heap' = heap
          ELSE /\ UNCHANGED << exc, status >>
               /\ IF r.none
                  THEN heap' = heap
                  ELSE heap' = [heap EXCEPT ![Top.self].nodes =
                                              appendNode(@, r.node)]
  /\ stack' = Advance
  /\ UNCHANGED << fs, VISITED_LAUNCH_FILES, runs, results, parseLog, dot >>

ParseNodeStep == NodeStep("node", "name", FALSE)

ParseTestNodeStep == NodeStep("test", "test-name", TRUE)

\* a child with any other tag matches no branch of the loop
SkipElementStep ==
  /\ Running /\ Top.rest # << >>
  /\ Cur.tag \notin { "arg", "include", "group", "node", "test" }
  /\ stack' = Advance
  /\ UNCHANGED << fs, VISITED_LAUNCH_FILES, heap, exc, status, runs, results,
                  parseLog, dot >>

\* the loop of a group is over: __parseGroup returns
ReturnFromGroup ==
  /\ Running /\ Top.rest = << >> /\ Top.via = "group"
  /\ stack' = Tail(stack)
  /\ UNCHANGED << fs, VISITED_LAUNCH_FILES, heap, exc, status, runs, results,
                  parseLog, dot >>

\* the loop of an included file is over: its constructor returns and the
\* caller appends the new object to its includes (line 574)
ReturnFromInclude ==
  /\ Running /\ Top.rest = << >> /\ Top.via = "include"
  /\ stack' = Tail(stack)
  /\ heap' = [heap EXCEPT ![stack[2].self].includes = Append(@, Top.self)]
  /\ UNCHANGED << fs, VISITED_LAUNCH_FILES, exc, status, runs, results,
                  parseLog, dot >>

\* the loop of the root file is over: the root constructor returns
ReturnFromRoot ==
  /\ Running /\ Top.rest = << >> /\ Top.via = "root"
  /\ stack' = << >>
  /\ status' = "done"
  /\ results' = Append(results, Result(heap[1].filename, TRUE, Tree(heap, 1)))
  /\ UNCHANGED << fs, VISITED_LAUNCH_FILES, heap, exc, runs, parseLog, dot >>

(***************************************************************************)
(* Exceptions                                                              *)
(***************************************************************************)
\* the registry is put back to what the element found when it started
exceptContinueRolledBack(visited, before) == before

\* except: continue, lines 569-571, 578-580, 584-586 and 594-596: the handler
\* touches nothing, the registry stays as the failed element left it
exceptContinue(visited, before) == visited

\* the except clause of the element's try block: "continue"
ExceptContinue ==
  /\ status = "running" /\ exc # NoExc
  /\ Catches(exc.tag)
  /\ exc' = NoExc
  /\ VISITED_LAUNCH_FILES' = exceptContinue(VISITED_LAUNCH_FILES, exc.snap.visited)
  /\ UNCHANGED << fs, heap, stack, status, runs, results, parseLog, dot >>

\* no try block around the element: the exception leaves the loop, and the
\* call that started the loop raises it in the caller
ExceptPropagate ==
  /\ status = "running" /\ exc # NoExc
  /\ ~Catches(exc.tag) /\ exc.tag # "root"
  /\ stack' = Tail(stack)
  /\ exc' = [exc EXCEPT !.tag = Top.via, !.snap = Top.snap]
  /\ UNCHANGED << fs, VISITED_LAUNCH_FILES, heap, status, runs, results,
                  parseLog, dot >>

\* the except clause around LaunchFile(launchFile) in the main block
MainExcept ==
  /\ status = "running" /\ exc # NoExc
  /\ exc.tag = "root"
  /\ status' = "failed"
  /\ exc' = NoExc
  /\ results' = Append(results, Result(heap[1].filename, FALSE, << >>))
  /\ UNCHANGED << fs, VISITED_LAUNCH_FILES, heap, stack, runs, parseLog, dot >>

(***************************************************************************)
(* Graph assembly                                                          *)
(***************************************************************************)
RECURSIVE getAllNodes(_, _)
getAllNodes(h, o) ==
  LET RECURSIVE children(_)
      children(i) ==
        IF i > Len(h[o].includes) THEN << >>
        ELSE getAllNodes(h, h[o].includes[i]) \o children(i + 1)
  IN h[o].nodes \o children(1)

\* the length of the list instead of the size of the set
getNumNodesAll(h, o) == Len(getAllNodes(h, o))

getNumNodes(h, o) ==
  LET allNodes == getAllNodes(h, o)
  IN Cardinality({ << allNodes[i].package, allNodes[i].nodeType,
                      allNodes[i].name >> : i \in 1..Len(allNodes) })

\* positions at which pat occurs in text
Occurrences(text, pat) == { i \in 1..Len(text) : IsPrefixAt(text, pat, i) }

Min(S) == CHOOSE x \in S : \A y \in S : x <= y
Max(S) == CHOOSE x \in S : \A y \in S : x >= y

\* os.path.basename: what follows the last separator
basename(path) ==
  LET seps == { i \in 1..Len(path) : path[i] = "/" }
  IN IF seps = {} THEN path ELSE SubSeq(path, Max(seps) + 1, Len(path))

\* os.path.splitext(name)[0]: the name without its extension; a name that
\* only starts with periods has no extension
splitextRoot(name) ==
  LET dots == { i \in 1..Len(name) :
                  /\ name[i] = "."
                  /\ \E j \in 1..(i - 1) : name[j] # "." }
  IN IF dots = {} THEN name ELSE SubSeq(name, 1, Max(dots) - 1)

getCleanName(filename) ==
  Replace(splitextRoot(basename(filename)), << "." >>, << "_" >>)

LaunchDir == << "/", "launch", "/" >>

\* len(self.__filename.split("/launch/")) >= 2
hasPackageName(filename) == Occurrences(filename, LaunchDir) # {}

\* getPackageName, for a filename that has one
getPackageName(filename) ==
  basename(SubSeq(filename, 1, Min(Occurrences(filename, LaunchDir)) - 1))

\* packageLaunchFileMap[pkg]: the launch files all[i..] of the package, in
\* order
RECURSIVE packageLaunchFiles(_, _, _, _)
packageLaunchFiles(h, all, pkg, i) ==
  IF i > Len(all) THEN << >>
  ELSE (IF getPackageName(h[all[i]].filename) = pkg
        THEN << all[i] >> ELSE << >>)
       \o packageLaunchFiles(h, all, pkg, i + 1)

\* packageNodeMap[pkg]: the nodes allNodes[i..] of the package, in order
RECURSIVE packageNodes(_, _, _)
packageNodes(allNodes, pkg, i) ==
  IF i > Len(allNodes) THEN << >>
  ELSE (IF allNodes[i].package = pkg THEN << allNodes[i] >> ELSE << >>)
       \o packageNodes(allNodes, pkg, i + 1)

\* getPackageMap raises when the name of a package cannot be derived
packageMapRaises(h, o) ==
  LET all == getAllLaunchFiles(h, o)
  IN \E i \in 1..Len(all) : ~hasPackageName(h[all[i]].filename)

\* the packages of the nodes are left out of the keys
getPackageMapFilesOnly(h, o) ==
  LET all      == getAllLaunchFiles(h, o)
      allNodes == getAllNodes(h, o)
      uniquePackages ==
        { getPackageName(h[all[i]].filename) : i \in 1..Len(all) }
  IN [pkg \in uniquePackages |->
        << packageLaunchFiles(h, all, pkg, 1), packageNodes(allNodes, pkg, 1) >>]

\* getPackageMap: package name -> << launch files, nodes >>
getPackageMap(h, o) ==
  LET all      == getAllLaunchFiles(h, o)
      allNodes == getAllNodes(h, o)
      uniquePackages ==
        { getPackageName(h[all[i]].filename) : i \in 1..Len(all) }
        \cup { allNodes[i].package : i \in 1..Len(allNodes) }
  IN [pkg \in uniquePackages |->
        << packageLaunchFiles(h, all, pkg, 1), packageNodes(allNodes, pkg, 1) >>]

(***************************************************************************)
(* toDot                                                                   *)
(***************************************************************************)
LaunchFileColor  == "#d3d3d3"
MissingFileColor == "#cc0000"
NodeColor        == "#6495ed"
TestNodeColor    == "#009900"

\* the orders in which a dictionary may hand out its keys
Orders(S) ==
  { ord \in [1..Cardinality(S) -> S] :
      \A i, j \in 1..Cardinality(S) : ord[i] = ord[j] => i = j }

\* every launch file is drawn with the colour of an existing file
createPackageSubgraphOneColor(h, clusterNum, packageName, packageTuple) ==
  [num   |-> clusterNum,
   label |-> packageName,
   files |-> [i \in 1..Len(packageTuple[1]) |->
               LET f == h[packageTuple[1][i]]
               IN [id    |-> getCleanName(f.filename),
                   label |-> basename(f.filename),
                   fillcolor |-> LaunchFileColor]],
   nodes |-> [i \in 1..Len(packageTuple[2]) |->
               LET n == packageTuple[2][i]
               IN [id |-> n.name,
                   fillcolor |-> IF n.isTestNode THEN TestNodeColor
                                 ELSE NodeColor]]]

\* __createPackageSubgraph: the cluster of one package
createPackageSubgraph(h, clusterNum, packageName, packageTuple) ==
  [num   |-> clusterNum,
   label |-> packageName,
   files |-> [i \in 1..Len(packageTuple[1]) |->
               LET f == h[packageTuple[1][i]]
               IN [id    |-> getCleanName(f.filename),
                   label |-> basename(f.filename),
                   fillcolor |-> IF f.missing THEN MissingFileColor
                                 ELSE LaunchFileColor]],
   nodes |-> [i \in 1..Len(packageTuple[2]) |->
               LET n == packageTuple[2][i]
               IN [id |-> n.name,
                   fillcolor |-> IF n.isTestNode THEN TestNodeColor
                                 ELSE NodeColor]]]

\* the edges out of one launch file, lines 381-415
launchFileEdges(h, f) ==
  [i \in 1..Len(h[f].includes) |->
     LET include == h[h[f].includes[i]]
         isCycle == \E c \in 1..Len(h[f].cycles) :
                       h[f].cycles[c] = include.filename
     IN [from    |-> getCleanName(h[f].filename),
         to      |-> getCleanName(include.filename),
         color   |-> IF isCycle THEN "red" ELSE "black",
         warning |-> isCycle]]

RECURSIVE Flatten(_)
Flatten(seqs) ==
  IF seqs = << >> THEN << >> ELSE Head(seqs) \o Flatten(Tail(seqs))

\* the graph toDot writes for the tree under o when the dictionary hands
\* out the packages in the order ord
toDot(h, o, ord) ==
  LET packageMap == getPackageMap(h, o)
  IN [ok |-> TRUE,
      numPackages    |-> Cardinality(DOMAIN packageMap),
      numLaunchFiles |-> getNumLaunchFiles(h, o),
      numNodes       |-> getNumNodes(h, o),
      clusters |-> [c \in 1..Len(ord) |->
                     createPackageSubgraph(h, c - 1, ord[c],
                                           packageMap[ord[c]])],
      launchEdges |->
        Flatten([c \in 1..Len(ord) |->
                  Flatten([i \in 1..Len(packageMap[ord[c]][1]) |->
                            launchFileEdges(h, packageMap[ord[c]][1][i])])]),
      nodeEdges |->
        Flatten([c \in 1..Len(ord) |->
                  [i \in 1..Len(packageMap[ord[c]][2]) |->
                     LET n == packageMap[ord[c]][2][i]
                     IN [from |-> getCleanName(h[n.launchFile].filename),
                         to   |-> n.name]]])]

\* launchFile.toDot() in the main block
ToDotStep ==
  /\ status = "done"
  /\ IF packageMapRaises(heap, 1)
     THEN /\ status' = "emitFailed"
          /\ dot' = NoDot
     ELSE /\ status' = "emitted"
          /\ \E ord \in Orders(DOMAIN getPackageMap(heap, 1)) :
               dot' = toDot(heap, 1, ord)
  /\ UNCHANGED << fs, VISITED_LAUNCH_FILES, heap, stack, exc, runs, results,
                  parseLog >>

(***************************************************************************)
(* Specification                                                           *)
(***************************************************************************)
Init ==
  /\ fs \in FileSystems
  /\ VISITED_LAUNCH_FILES = {}
  /\ heap = << >>
  /\ stack = << >>
  /\ exc = NoExc
  /\ status = "idle"
  /\ runs = 0
  /\ results = << >>
  /\ parseLog = << >>
  /\ dot = NoDot

StartStep == \E root \in Roots : Start(root)

Next ==
  \/ StartStep
  \/ ParseArgStep
  \/ ParseIncludeStep
  \/ ParseGroupStep
  \/ ParseNodeStep
  \/ ParseTestNodeStep
  \/ SkipElementStep
  \/ ReturnFromGroup
  \/ ReturnFromInclude
  \/ ReturnFromRoot
  \/ ExceptContinue
  \/ ExceptPropagate
  \/ MainExcept
  \/ ToDotStep

Spec == Init /\ [][Next]_vars

(***************************************************************************)
(* Properties                                                              *)
(***************************************************************************)
\* the root constructor has returned
Finished == status \in { "done", "emitted", "emitFailed" }

\* the root of the current resolution had not been visited by the process
RootFresh == heap # << >> /\ ~heap[1].hasVisited

\* ET.parse was never called for object o
Unparsed(o) == \A i \in 1..Len(parseLog) : parseLog[i].id # o

\* object o is an empty, unparsed entity
IsStub(o) ==
  /\ Unparsed(o)
  /\ heap[o].includes = << >>
  /\ heap[o].nodes = << >>
  /\ heap[o].cycles = << >>

\* number of positions of seq that hold x
Count(seq, x) == Cardinality({ i \in 1..Len(seq) : seq[i] = x })

RECURSIVE SumLen(_, _)
\* total length of the cycle lists of the objects ids[i..]
SumLen(ids, i) ==
  IF i > Len(ids) THEN 0
  ELSE Len(heap[ids[i]].cycles) + SumLen(ids, i + 1)

\* C1: within one resolution ET.parse is called at most once per filename,
\* and every object constructed for a filename that was already in the
\* visited registry is unparsed, with no includes, nodes or cycles.
C1_ParsedAtMostOnce ==
  /\ \A i, j \in 1..Len(parseLog) :
       parseLog[i].filename = parseLog[j].filename => i = j
  /\ \A o \in 1..Len(heap) : heap[o].hasVisited => IsStub(o)

\* a resolution ended in which a file parsed earlier was referenced again
C1_Witness ==
  /\ status = "done"
  /\ Len(parseLog) >= 2
  /\ \E o \in 2..Len(heap) :
       /\ heap[o].hasVisited
       /\ \E i \in 1..Len(parseLog) : parseLog[i].filename = heap[o].filename

\* the top-level includes of the root document that are enabled and resolve
\* to the root file itself
SelfIncludes ==
  LET root == heap[1].filename
      elems == fs[root].elems
  IN { i \in 1..Len(elems) :
         /\ elems[i].tag = "include"
         /\ parseInclude(elems[i].attrib, << >>, << >>).ok
         /\ ~parseInclude(elems[i].attrib, << >>, << >>).none
         /\ parseInclude(elems[i].attrib, << >>, << >>).resolved = root }

\* the direct includes of the root that carry the filename of the root
SelfChildren ==
  { i \in 1..Len(heap[1].includes) :
      heap[heap[1].includes[i]].filename = heap[1].filename }

\* C2 as stated: a root that includes itself ends with itself in its cycle
\* list and with exactly one entity in getAllLaunchFiles.
C2_Original ==
  (Finished /\ RootFresh /\ SelfIncludes # {}) =>
    /\ Count(heap[1].cycles, heap[1].filename) >= 1
    /\ Len(getAllLaunchFiles(heap, 1)) = 1

\* C2 amended: a root that includes itself is parsed once, has itself in
\* its cycle list once per self-include, and getAllLaunchFiles holds the
\* root and one unparsed stub entity per self-include; only the count of
\* distinct filenames (getNumLaunchFiles) counts the file once.  A root that
\* an earlier resolution of the process had visited is not parsed at all and
\* is the only entity, with an empty cycle list.
C2_SelfInclude ==
  /\ (Finished /\ ~RootFresh /\ SelfIncludes # {}) =>
       /\ IsStub(1)
       /\ getAllLaunchFiles(heap, 1) = << 1 >>
  /\ (RootFresh /\ SelfIncludes # {}) =>
       /\ status # "hung"
       /\ Cardinality({ i \in 1..Len(parseLog) :
                          parseLog[i].filename = heap[1].filename }) = 1
       /\ Finished =>
            /\ Count(heap[1].cycles, heap[1].filename) = Cardinality(SelfIncludes)
            /\ Cardinality(SelfChildren) = Cardinality(SelfIncludes)
            /\ \A i \in SelfChildren : IsStub(heap[1].includes[i])
            /\ Len(getAllLaunchFiles(heap, 1)) >= 1 + Cardinality(SelfIncludes)
            /\ fs[heap[1].filename].elems = << Include(heap[1].filename) >> =>
                 /\ Len(getAllLaunchFiles(heap, 1)) = 2
                 /\ getNumLaunchFiles(heap, 1) = 1

\* the resolution of a root whose only element includes the root ended
C2_Witness ==
  /\ Finished /\ RootFresh
  /\ fs[heap[1].filename].elems = << Include(heap[1].filename) >>
  /\ heap[1].cycles = << heap[1].filename >>

\* x.launch includes y.launch, y.launch includes x.launch, and the
\* resolution started on x.launch
TwoFileCycle ==
  /\ heap[1].filename = PX
  /\ fs[PX] = Doc(<< Include(PY) >>)
  /\ fs[PY] = Doc(<< Include(PX) >>)

\* positions of the list of reachable entities that hold a stub
ReachableStubs ==
  LET all == getAllLaunchFiles(heap, 1)
  IN { i \in 1..Len(all) : heap[all[i]].hasVisited }

\* C3 as stated: a two-file cycle yields two entities and one cycle edge.
C3_Original ==
  (Finished /\ RootFresh /\ TwoFileCycle) =>
    /\ Len(getAllLaunchFiles(heap, 1)) = 2
    /\ SumLen(getAllLaunchFiles(heap, 1), 1) = 1

\* C3 amended: a two-file cycle yields three entities (x, y and an unparsed
\* stub for x) with two distinct filenames and one cycle entry; in every
\* tree an include of a visited path adds exactly one unparsed leaf stub
\* (as many stubs as cycle entries) and never a second parsed entity for a
\* filename.  A root that an earlier resolution of the process had visited
\* is itself such a stub and the only entity.
C3_Entities ==
  Finished =>
    LET all == getAllLaunchFiles(heap, 1)
    IN /\ ~RootFresh => all = << 1 >> /\ IsStub(1)
       /\ RootFresh => Cardinality(ReachableStubs) = SumLen(all, 1)
       /\ \A i, j \in (1..Len(all)) \ ReachableStubs :
            heap[all[i]].filename = heap[all[j]].filename => i = j
       /\ \A i \in ReachableStubs : IsStub(all[i])
       /\ (RootFresh /\ TwoFileCycle) =>
            /\ Len(all) = 3
            /\ getNumLaunchFiles(heap, 1) = 2
            /\ SumLen(all, 1) = 1
            /\ heap[all[3]].filename = PX

\* the resolution of the two-file cycle ended
C3_Witness ==
  /\ Finished /\ RootFresh /\ TwoFileCycle
  /\ Len(heap[2].cycles) = 1

RECURSIVE UsesAnon(_)
\* some attribute of the elements, or of their children, holds "anon"
UsesAnon(elems) ==
  \E i \in 1..Len(elems) :
     \/ \E a \in DOMAIN elems[i].attrib : ContainsTok(elems[i].attrib[a], "anon")
     \/ UsesAnon(elems[i].children)

\* C4 as stated: two resolutions of the same root in one process, with the
\* files unchanged and no random names involved, yield the same tree.
C4_Original ==
  (\A f \in DOMAIN fs : ~UsesAnon(fs[f].elems)) =>
    \A i, j \in 1..Len(results) :
       (i < j /\ results[i].root = results[j].root
          /\ results[i].ok /\ results[j].ok)
       => results[i].tree = results[j].tree

\* the tags whose elements carry 'if' and 'unless'
GatedTags == { "include", "group", "node", "test" }

\* the loop is about to process an element
AtAny == Running /\ Top.rest # << >>

\* the resolved value of attribute a of the current element
GateText(a) == resolveText(heap[Top.self].args, Cur.attrib[a], << >>)

\* attribute a of the current element is absent or resolves to a boolean
GateValid(a) ==
  Has(Cur.attrib, a) =>
    GateText(a).ok /\ lower(GateText(a).text) \in Truthy \cup Falsy

\* attribute a of the current element resolves to something not a boolean
GateInvalid(a) ==
  /\ Has(Cur.attrib, a)
  /\ GateText(a).ok
  /\ lower(GateText(a).text) \notin Truthy \cup Falsy

\* 'if' is unset or truthy and 'unless' is unset or falsy
GateIncluded ==
  /\ Has(Cur.attrib, "if") => lower(GateText("if").text) \in Truthy
  /\ Has(Cur.attrib, "unless") => lower(GateText("unless").text) \in Falsy

Last(seq) == seq[Len(seq)]

\* the step processed the current element: a group starts the loop over its
\* children, an include constructs a LaunchFile, a node or test is appended;
\* or the processing raised
ElementProcessed ==
  \/ exc' # NoExc
  \/ status' = "hung"
  \/ /\ Cur.tag = "group"
     /\ Len(stack') = Len(stack) + 1
     /\ Head(stack').self = Top.self
     /\ Head(stack').rest = Cur.children
  \/ /\ Cur.tag = "include"
     /\ Len(heap') = Len(heap) + 1
     /\ Last(heap').filename \in VISITED_LAUNCH_FILES'
  \/ /\ Cur.tag \in { "node", "test" }
     /\ Len(heap'[Top.self].nodes) = Len(heap[Top.self].nodes) + 1

\* the step only moved to the next sibling
ElementSkipped ==
  /\ stack' = Advance
  /\ heap' = heap
  /\ VISITED_LAUNCH_FILES' = VISITED_LAUNCH_FILES
  /\ parseLog' = parseLog
  /\ exc' = NoExc
  /\ status' = status

\* C5: an include, group, node or test element whose 'if' and 'unless'
\* resolve to true/1/false/0 in any letter case is processed exactly when
\* 'if' is unset or truthy and 'unless' is unset or falsy; otherwise the step
\* changes nothing but the position in the list (no object, node, include,
\* cycle, registry entry or argument, and a group's children are not run).
C5_Gating ==
  [][(AtAny /\ Cur.tag \in GatedTags /\ GateValid("if") /\ GateValid("unless"))
       => IF GateIncluded THEN ElementProcessed /\ ~ElementSkipped
          ELSE ElementSkipped]_vars

\* a resolution ended whose first element was a group disabled by
\* unless="True": its argument, include and node left no trace
C5_Witness ==
  /\ status = "done" /\ runs = 1
  /\ heap[1].filename = PX
  /\ Len(fs[PX].elems) = 2
  /\ fs[PX].elems[1].tag = "group"
  /\ Has(fs[PX].elems[1].attrib, "unless")
  /\ fs[PX].elems[1].attrib["unless"] = << "True" >>
  /\ ~Has(fs[PX].elems[1].attrib, "if")
  /\ Len(fs[PX].elems[1].children) = 3
  /\ Len(heap) = 1
  /\ heap[1].args = << >>
  /\ Len(heap[1].nodes) = 1
  /\ PY \notin VISITED_LAUNCH_FILES

\* C6 as stated: an 'if' or 'unless' that resolves to something other than
\* true/1/false/0 makes the element raise InvalidBoolean, whatever the
\* other attribute is.
C6_Original ==
  [][(/\ AtAny /\ Cur.tag \in GatedTags
      /\ GateInvalid("if") \/ GateInvalid("unless")
      /\ Has(Cur.attrib, "if") => GateText("if").ok
      /\ Has(Cur.attrib, "unless") => GateText("unless").ok)
       => exc'.err = "InvalidBoolean"]_vars

\* an exception is about to be handled by the try block of an element
Caught == status = "running" /\ exc # NoExc /\ exc.tag \in GatedTags

IsPrefix(a, b) == Len(a) <= Len(b) /\ SubSeq(b, 1, Len(a)) = a

\* C7 as stated: an error in an include, group, node or test element is
\* caught, and the enclosing object and the registry are as if the element
\* had been absent.
C7_Original ==
  [][Caught =>
       /\ exc' = NoExc /\ stack' = stack
       /\ heap[Top.self] = exc.snap.obj
       /\ VISITED_LAUNCH_FILES = exc.snap.visited]_vars

\* C7 amended: an error in an include, group, node or test element is
\* always caught at that element and the loop goes on with the next
\* sibling; a failing node, test or include adds nothing to the enclosing
\* object, but what a group's earlier children added stays, and so do the
\* registry entries made by a failing include or group.  Only an argument
\* declaration at the root's own level, or the parse of the root, makes the
\* resolution fail.
C7_Isolation ==
  [][/\ Caught =>
          /\ exc' = NoExc /\ stack' = stack /\ status' = "running"
          /\ heap' = heap /\ VISITED_LAUNCH_FILES' = VISITED_LAUNCH_FILES
          /\ exc.snap.visited \subseteq VISITED_LAUNCH_FILES
          /\ exc.tag \in { "node", "test" } =>
               VISITED_LAUNCH_FILES = exc.snap.visited
          /\ exc.tag \in { "node", "test", "include" } =>
               heap[Top.self] = exc.snap.obj
          /\ exc.tag = "group" =>
               /\ IsPrefix(exc.snap.obj.nodes, heap[Top.self].nodes)
               /\ IsPrefix(exc.snap.obj.includes, heap[Top.self].includes)
               /\ IsPrefix(exc.snap.obj.cycles, heap[Top.self].cycles)
               /\ DOMAIN exc.snap.obj.args \subseteq DOMAIN heap[Top.self].args
     /\ (status = "running" /\ exc.tag = "root") =>
          exc.origin \in { "arg", "parse" }]_vars

\* a resolution ended in which a group failed at its second child: the node
\* of its first child stayed and the sibling after the group was processed
C7_Witness ==
  /\ status = "done"
  /\ Len(fs[heap[1].filename].elems) = 2
  /\ fs[heap[1].filename].elems[1].tag = "group"
  /\ Len(fs[heap[1].filename].elems[1].children) = 3
  /\ fs[heap[1].filename].elems[1].children[2] = ArgNeither
  /\ fs[heap[1].filename].elems[2].tag = "test"
  /\ Len(heap[1].nodes) = 2
  /\ heap[1].nodes[1].name = << "v" >>
  /\ heap[1].nodes[2].isTestNode

\* the objects of the current tree that stand for files not on disk
MissingReachable ==
  LET all == getAllLaunchFiles(heap, 1)
  IN { all[i] : i \in { j \in 1..Len(all) : heap[all[j]].missing } }

\* C8 as stated: with a nonexistent file in the tree, toDot still completes.
C8_Original ==
  (status \in { "emitted", "emitFailed" } /\ MissingReachable # {})
    => status = "emitted"

\* the current element is an enabled include of a path that is not on disk
AtMissingInclude ==
  /\ AtElement("include")
  /\ parseInclude(Cur.attrib, heap[Top.self].args, << >>).ok
  /\ ~parseInclude(Cur.attrib, heap[Top.self].args, << >>).none
  /\ ~exists(parseInclude(Cur.attrib, heap[Top.self].args, << >>).resolved)

\* the file entries of the emitted graph that stand for object o
DrawnAs(o) ==
  UNION { { dot.clusters[c].files[i].fillcolor :
              i \in { j \in 1..Len(dot.clusters[c].files) :
                        dot.clusters[c].files[j].label
                          = basename(heap[o].filename) } } :
            c \in { d \in 1..Len(dot.clusters) :
                      dot.clusters[d].label
                        = getPackageName(heap[o].filename) } }

\* toDot was called and returned or raised
C8_Emission ==
  status \in { "emitted", "emitFailed" } =>
    /\ status = "emitted" <=>
         \A i \in 1..Len(getAllLaunchFiles(heap, 1)) :
            hasPackageName(heap[getAllLaunchFiles(heap, 1)[i]].filename)
    /\ status = "emitted" =>
         \A o \in MissingReachable : DrawnAs(o) = { MissingFileColor }

\* C8 amended: an enabled include of a nonexistent path adds to the parent's
\* includes an object flagged missing with no includes and no nodes, without
\* parsing anything; toDot completes exactly when the path of every file of
\* the tree has a /launch/ segment, and then draws every missing file with
\* the missing-file colour.
C8_MissingFile ==
  /\ []C8_Emission
  /\ [][AtMissingInclude =>
          /\ exc' = NoExc /\ stack' = Advance /\ parseLog' = parseLog
          /\ Len(heap') = Len(heap) + 1
          /\ Last(heap').missing
          /\ Last(heap').includes = << >> /\ Last(heap').nodes = << >>
          /\ heap'[Top.self].includes =
               Append(heap[Top.self].includes, Len(heap'))]_vars

\* a graph was emitted for a tree that holds a nonexistent file
C8_Witness ==
  /\ status = "emitted" /\ dot.ok
  /\ \E o \in MissingReachable : DrawnAs(o) = { MissingFileColor }

\* the name of the current node element is $(keyword NAME) or, with a
\* default, $(keyword NAME default)
NameIs(keyword, n) ==
  /\ AtElement("node")
  /\ Has(Cur.attrib, "name") /\ Has(Cur.attrib, "pkg") /\ Has(Cur.attrib, "type")
  /\ ~Has(Cur.attrib, "if") /\ ~Has(Cur.attrib, "unless")
  /\ Len(Cur.attrib["name"]) = n /\ n >= 5
  /\ SubSeq(Cur.attrib["name"], 1, 3) = << "$(", keyword, " " >>
  /\ Cur.attrib["name"][n] = ")"

\* the step appended a node with this name
NodeNamed(name) ==
  /\ exc' = NoExc
  /\ Len(heap'[Top.self].nodes) = Len(heap[Top.self].nodes) + 1
  /\ Last(heap'[Top.self].nodes).name = name

\* C9 as stated: $(env NAME) is the value of the variable, or an error when
\* it is not set; $(optenv NAME default) is the value of the variable, or
\* the default when it is not set.
C9_Original ==
  [][/\ NameIs("env", 5) =>
          IF << Cur.attrib["name"][4] >> \in DOMAIN environ
          THEN NodeNamed(environ[<< Cur.attrib["name"][4] >>])
          ELSE exc' # NoExc
     /\ NameIs("optenv", 7) =>
          IF << Cur.attrib["name"][4] >> \in DOMAIN environ
          THEN NodeNamed(environ[<< Cur.attrib["name"][4] >>])
          ELSE NodeNamed(<< Cur.attrib["name"][6] >>)]_vars

\* the current element declares an argument with a literal name
AtDeclaration ==
  /\ AtElement("arg")
  /\ Has(Cur.attrib, "name")
  /\ ~ContainsTok(Cur.attrib["name"], "$(")

\* the step stored the resolved attribute a under the declared name, or the
\* resolution of a raised
StoredFrom(a) ==
  IF GateText(a).ok
  THEN /\ exc' = NoExc
       /\ heap'[Top.self].args =
            Put(heap[Top.self].args, Cur.attrib["name"], GateText(a).text)
  ELSE exc'.err = GateText(a).err /\ heap' = heap

\* C10: a declaration stores its resolved 'value', or its resolved 'default'
\* when it has no 'value', in the table of the file being parsed, replacing
\* an earlier entry; a declaration with neither raises and stores nothing;
\* $(arg x) is the entry of x in the table of the file being parsed, and
\* an error when that table has none, whatever other files declared.
C10_Arguments ==
  [][/\ AtDeclaration =>
          IF Has(Cur.attrib, "value") THEN StoredFrom("value")
          ELSE IF Has(Cur.attrib, "default") THEN StoredFrom("default")
          ELSE exc'.err = "ArgumentDeclaration" /\ heap' = heap
     /\ (NameIs("arg", Len(Cur.attrib["name"]))
           /\ ~ContainsTok(SubSeq(Cur.attrib["name"], 6,
                                  Len(Cur.attrib["name"])), "$(")) =>
          IF << Cur.attrib["name"][4] >> \in DOMAIN heap[Top.self].args
          THEN NodeNamed(heap[Top.self].args[<< Cur.attrib["name"][4] >>]
                         \o SubSeq(Cur.attrib["name"], 6,
                                   Len(Cur.attrib["name"])))
          ELSE exc'.err = "UndefinedArgument" /\ heap' = heap]_vars

\* an included file used an argument that only its parent had declared
C10_Witness ==
  /\ status = "running"
  /\ exc.err = "UndefinedArgument"
  /\ stack # << >>
  /\ Top.self # 1
  /\ << "u" >> \in DOMAIN heap[1].args
  /\ << "u" >> \notin DOMAIN heap[Top.self].args

(***************************************************************************)
(* Document order                                                          *)
(***************************************************************************)
\* what a file has after a list of elements: its argument table, the names
\* of its nodes, the paths its includes asked for, and whether the list was
\* left by an error
WalkInit == [args |-> << >>, nodes |-> << >>, includes |-> << >>, ok |-> TRUE]

RECURSIVE DocWalk(_, _, _)

DocWalkArg(elems, i, st, r) ==
  IF r.ok THEN DocWalk(elems, i + 1, [st EXCEPT !.args = r.args])
  ELSE [st EXCEPT !.ok = FALSE]

DocWalkNode(elems, i, st, r) ==
  DocWalk(elems, i + 1,
          IF r.ok /\ ~r.none
          THEN [st EXCEPT !.nodes = Append(@, r.node.name)]
          ELSE st)

DocWalkInclude(elems, i, st, r) ==
  DocWalk(elems, i + 1,
          IF r.ok /\ ~r.none
          THEN [st EXCEPT !.includes = Append(@, r.resolved)]
          ELSE st)

DocWalkGroupDone(elems, i, sub) ==
  DocWalk(elems, i + 1, [sub EXCEPT !.ok = TRUE])

DocWalkGroup(elems, i, st, en) ==
  IF en.ok /\ en.en
  THEN DocWalkGroupDone(elems, i, DocWalk(elems[i].children, 1, st))
  ELSE DocWalk(elems, i + 1, st)

\* the elements elems[i..] taken one after the other in document order, the
\* children of an enabled group before the sibling that follows the group;
\* an argument declaration that raises ends the list it is in
DocWalk(elems, i, st) ==
  IF i > Len(elems) THEN st
  ELSE IF elems[i].tag = "arg"
       THEN DocWalkArg(elems, i, st, parseArg(elems[i].attrib, st.args, << >>))
  ELSE IF elems[i].tag = "node"
       THEN DocWalkNode(elems, i, st,
                        parseNode(0, elems[i].attrib, st.args, << >>,
                                  "name", FALSE))
  ELSE IF elems[i].tag = "test"
       THEN DocWalkNode(elems, i, st,
                        parseNode(0, elems[i].attrib, st.args, << >>,
                                  "test-name", TRUE))
  ELSE IF elems[i].tag = "include"
       THEN DocWalkInclude(elems, i, st,
                           parseInclude(elems[i].attrib, st.args, << >>))
  ELSE IF elems[i].tag = "group"
       THEN DocWalkGroup(elems, i, st,
                         isEnabled(elems[i].attrib, st.args, << >>))
  ELSE DocWalk(elems, i + 1, st)

\* the loop over the root document's own elements is between two elements
AtRootLevel == Running /\ Len(stack) = 1 /\ Top.via = "root"

\* the elements of the root document before the current position
RootPrefix ==
  SubSeq(fs[heap[1].filename].elems, 1,
         Len(fs[heap[1].filename].elems) - Len(Top.rest))

NodeNames(nodes) == [i \in 1..Len(nodes) |-> nodes[i].name]

RECURSIVE IsSubseq(_, _)
\* a is b with some elements left out
IsSubseq(a, b) ==
  IF a = << >> THEN TRUE
  ELSE IF b = << >> THEN FALSE
  ELSE IF Head(a) = Head(b) THEN IsSubseq(Tail(a), Tail(b))
  ELSE IsSubseq(a, Tail(b))

\* the argument names the attributes refer to with $(arg name)
ArgRefs(attrib) ==
  UNION { { << attrib[k][i + 3] >> :
              i \in { j \in 1..(Len(attrib[k]) - 4) :
                        attrib[k][j] = "$(" /\ attrib[k][j + 1] = "arg" } } :
          k \in DOMAIN attrib }

\* the root file matches what its document says, read in document order up
\* to the current position
C11_Prefix ==
  (AtRootLevel /\ ~UsesAnon(fs[heap[1].filename].elems)) =>
    /\ heap[1].args = DocWalk(RootPrefix, 1, WalkInit).args
    /\ NodeNames(heap[1].nodes) = DocWalk(RootPrefix, 1, WalkInit).nodes
    /\ IsSubseq([i \in 1..Len(heap[1].includes) |->
                   heap[heap[1].includes[i]].filename],
                DocWalk(RootPrefix, 1, WalkInit).includes)

\* an element that refers to arguments raises UndefinedArgument exactly when
\* one of them is not declared by the elements before it
C11_Reference ==
  (AtRootLevel /\ Top.rest # << >> /\ Cur.tag \in GatedTags
     /\ ArgRefs(Cur.attrib) # {}
     /\ ~UsesAnon(fs[heap[1].filename].elems)) =>
    IF ArgRefs(Cur.attrib) \subseteq DOMAIN DocWalk(RootPrefix, 1, WalkInit).args
    THEN exc' = NoExc
    ELSE exc'.err = "UndefinedArgument"

\* C11: the elements of a file are processed in document order, depth first:
\* at every position the argument table, the node list and the include list
\* of the file are those of the elements before that position, so an
\* include, node, test or group that refers to $(arg x) raises
\* UndefinedArgument when x is declared only later and resolves when x is
\* declared earlier, at the same level or in an earlier enabled group; the
\* node list and the include list are in document order.
C11_DocumentOrder ==
  /\ []C11_Prefix
  /\ [][C11_Reference]_vars

\* a resolution ended on a document whose first element is a group that
\* declares u and whose second element is a node named after u
C11_Witness ==
  /\ status = "done" /\ RootFresh
  /\ Len(fs[heap[1].filename].elems) = 2
  /\ fs[heap[1].filename].elems[1].tag = "group"
  /\ fs[heap[1].filename].elems[2].tag = "node"
  /\ ArgRefs(fs[heap[1].filename].elems[2].attrib) = { << "u" >> }
  /\ << "u" >> \in DOMAIN heap[1].args
  /\ Len(heap[1].nodes) = 1
  /\ heap[1].nodes[1].name = << "v", "_", "n" >>

(***************************************************************************)
(* Statistics and package map                                              *)
(***************************************************************************)
RECURSIVE Reachable(_)
\* the set of objects reachable from o through include lists
Reachable(o) ==
  {o} \cup UNION { Reachable(heap[o].includes[i]) :
                     i \in 1..Len(heap[o].includes) }

\* the (package, type, name) triples of the nodes of the objects in S
Triples(S) ==
  UNION { { << heap[o].nodes[i].package, heap[o].nodes[i].nodeType,
               heap[o].nodes[i].name >> : i \in 1..Len(heap[o].nodes) } :
          o \in S }

\* C12: the node count of the root is the number of distinct
\* (package, type, name) triples among the nodes of all files reachable from
\* the root, also when two files declare the same triple or a file is
\* reached twice; the emitted graph reports that number.
C12_NumNodes ==
  /\ Finished => getNumNodes(heap, 1) = Cardinality(Triples(Reachable(1)))
  /\ status = "emitted" =>
       dot.numNodes = Cardinality(Triples(Reachable(1)))

\* a tree was resolved in which two files declare the same triple
C12_Witness ==
  /\ status = "emitted"
  /\ \E o1, o2 \in Reachable(1) :
       /\ o1 # o2
       /\ Triples({o1}) \cap Triples({o2}) # {}
  /\ dot.numNodes < Len(getAllNodes(heap, 1))

\* the nodes of the objects in S, each with the object that holds it
NodesOf(S) ==
  UNION { { heap[o].nodes[i] : i \in 1..Len(heap[o].nodes) } : o \in S }

\* the package names of the tree: derived from the paths of its files and
\* declared by its nodes
TreePackages ==
  { getPackageName(heap[o].filename) : o \in Reachable(1) }
  \cup { n.package : n \in NodesOf(Reachable(1)) }

\* the elements of a sequence, as a set
Range(seq) == { seq[i] : i \in 1..Len(seq) }

\* number of node entries (object, position) of the tree with package pkg
NumNodesIn(pkg) ==
  Cardinality({ oi \in UNION { { << o, i >> : i \in 1..Len(heap[o].nodes) } :
                               o \in Reachable(1) } :
                  heap[oi[1]].nodes[oi[2]].package = pkg })

\* C13: when the graph is assembled, the package map has one entry, and the
\* graph one cluster, per distinct package name among the packages derived
\* from the paths of the reachable files and the packages of their nodes;
\* clusters are numbered 0..n-1 in the order they are written; each
\* reachable file is in the file list of its derived package and no other,
\* each node in the node list of its declared package and no other.  A root
\* in package P without includes whose nodes are all of package P gives one
\* cluster labelled P.
C13_PackageMap ==
  status = "emitted" =>
    /\ DOMAIN getPackageMap(heap, 1) = TreePackages
    /\ dot.numPackages = Cardinality(TreePackages)
    /\ Len(dot.clusters) = Cardinality(TreePackages)
    /\ { dot.clusters[c].label : c \in 1..Len(dot.clusters) } = TreePackages
    /\ \A c \in 1..Len(dot.clusters) : dot.clusters[c].num = c - 1
    /\ \A pkg \in TreePackages :
         /\ Range(getPackageMap(heap, 1)[pkg][1])
              = { o \in Reachable(1) : getPackageName(heap[o].filename) = pkg }
         /\ Len(getPackageMap(heap, 1)[pkg][1])
              = Cardinality(Range(getPackageMap(heap, 1)[pkg][1]))
         /\ Range(getPackageMap(heap, 1)[pkg][2])
              = { n \in NodesOf(Reachable(1)) : n.package = pkg }
         /\ Len(getPackageMap(heap, 1)[pkg][2]) = NumNodesIn(pkg)
    /\ \A c \in 1..Len(dot.clusters) :
         /\ Len(dot.clusters[c].files)
              = Len(getPackageMap(heap, 1)[dot.clusters[c].label][1])
         /\ Len(dot.clusters[c].nodes)
              = Len(getPackageMap(heap, 1)[dot.clusters[c].label][2])
    /\ (Reachable(1) = {1}
          /\ \A n \in NodesOf({1}) :
                n.package = getPackageName(heap[1].filename)) =>
         /\ Len(dot.clusters) = 1
         /\ dot.clusters[1].label = getPackageName(heap[1].filename)

\* a graph was emitted with two clusters, one of a package that has nodes
\* and no launch file, one of the package of the root with its node
C13_Witness ==
  /\ status = "emitted"
  /\ Len(dot.clusters) = 2
  /\ \E c \in 1..2 : dot.clusters[c].files = << >> /\ dot.clusters[c].nodes # << >>
  /\ \E c \in 1..2 : dot.clusters[c].files # << >> /\ dot.clusters[c].nodes # << >>

(***************************************************************************)
(* Edges                                                                   *)
(***************************************************************************)
\* the include occurrences of the tree: << parent, position in its list >>
IncludeOccurrences ==
  UNION { { << f, i >> : i \in 1..Len(heap[f].includes) } : f \in Reachable(1) }

\* the target of the occurrence was already visited when it was processed
IsBackEdge(occ) == heap[heap[occ[1]].includes[occ[2]]].hasVisited

\* C14 as stated: in the emitted graph the edge of an include occurrence has
\* the cycle colour and the warning exactly when the target was already
\* visited when that include was processed; an occurrence that caused the
\* parse of its target has the normal colour.
C14_Original ==
  status = "emitted" =>
    /\ \A occ \in IncludeOccurrences :
         /\ launchFileEdges(heap, occ[1])[occ[2]].color
              = (IF IsBackEdge(occ) THEN "red" ELSE "black")
         /\ launchFileEdges(heap, occ[1])[occ[2]].warning = IsBackEdge(occ)
    /\ Cardinality({ e \in 1..Len(dot.launchEdges) :
                       dot.launchEdges[e].color = "red" })
         = Cardinality({ occ \in IncludeOccurrences : IsBackEdge(occ) })

(***************************************************************************)
(* Termination                                                             *)
(***************************************************************************)
RECURSIVE Work(_)
\* an upper bound on the steps a list of elements can still cause, the
\* files it includes not counted
Work(elems) ==
  IF elems = << >> THEN 0
  ELSE 3 + Work(Head(elems).children) + Work(Tail(elems))

RECURSIVE StackWork(_)
StackWork(k) ==
  IF k > Len(stack) THEN 0 ELSE 1 + Work(stack[k].rest) + StackWork(k + 1)

RECURSIVE PoolWork(_)
\* the work the files of S cause when they are parsed
PoolWork(S) ==
  IF S = {} THEN 0
  ELSE LET f == CHOOSE x \in S : TRUE
       IN 2 + Work(fs[f].elems) + PoolWork(S \ {f})

\* the steps the constructor of the root can still take: the elements left
\* on the stack, the files not yet in the registry, the exception in flight
Variant ==
  StackWork(1) + PoolWork(DOMAIN fs \ VISITED_LAUNCH_FILES)
  + (IF exc # NoExc THEN 1 ELSE 0)

\* while the constructor of the root is running it can take a step
CanStep ==
  status = "running" =>
    IF exc # NoExc
    THEN exc.tag \in GatedTags \cup { "root" } \/ stack # << >>
    ELSE /\ stack # << >>
         /\ Top.rest = << >> => Top.via \in { "group", "include", "root" }
         /\ (Top.rest = << >> /\ Top.via \in { "group", "include" })
              => Len(stack) >= 2

\* the parses started are on distinct files of the disk, and the objects
\* being parsed on the stack are on distinct files
C15_Bounded ==
  /\ Len(parseLog) <= Cardinality(DOMAIN fs \cap VISITED_LAUNCH_FILES)
  /\ \A i, j \in 1..Len(stack) :
       (stack[i].self # stack[j].self)
         => heap[stack[i].self].filename # heap[stack[j].self].filename

\* C15: on every include graph (self-includes, mutual cycles, diamonds) the
\* constructor of the root returns or raises, unless a substitution never
\* stops resolving: while it runs it can always take a step, every step
\* lowers a natural number, and it parses only paths that were not in the
\* registry, so the parses are no more than the files.
C15_Terminates ==
  /\ [](CanStep /\ C15_Bounded /\ Variant >= 0)
  /\ [][status = "running" => Variant' < Variant]_vars

\* the resolution of a root in a mutual cycle that also includes itself
\* has returned
C15_Witness ==
  /\ status = "done" /\ RootFresh
  /\ Len(parseLog) = 2
  /\ \E i \in 1..Len(heap[1].cycles) : heap[1].cycles[i] = heap[1].filename
  /\ \E o \in Reachable(1) : o # 1 /\ heap[o].cycles = << heap[1].filename >>

(***************************************************************************)
(* The resolver                                                            *)
(***************************************************************************)
\* the text holds no expression of the shape $(keyword argument)
NoExpression(text) == Search(text).s = 0

\* every text the resolver returned and the program kept: the arguments,
\* the attributes of the nodes and the paths of the included files
KeptTexts ==
  UNION { { heap[o].args[a] : a \in DOMAIN heap[o].args }
          \cup { heap[o].nodes[i].name : i \in 1..Len(heap[o].nodes) }
          \cup { heap[o].nodes[i].package : i \in 1..Len(heap[o].nodes) }
          \cup { heap[o].nodes[i].nodeType : i \in 1..Len(heap[o].nodes) }
          \cup { heap[heap[o].includes[i]].filename :
                   i \in 1..Len(heap[o].includes) } :
          o \in 1..Len(heap) }

\* the current element is a node without 'if' and 'unless' whose package and
\* type are plain text
AtPlainNode ==
  /\ AtElement("node")
  /\ Has(Cur.attrib, "name") /\ Has(Cur.attrib, "pkg") /\ Has(Cur.attrib, "type")
  /\ ~Has(Cur.attrib, "if") /\ ~Has(Cur.attrib, "unless")
  /\ NoExpression(Cur.attrib["pkg"]) /\ NoExpression(Cur.attrib["type"])

\* some expression of the text is resolved by its handler to a value that
\* holds the same expression again
Reintroduces(text) ==
  \E i \in 1..Len(text) :
     /\ MatchAt(text, i).s # 0
     /\ SubSeq(text, i + 1, MatchAt(text, i).j) = << "find" >>
     /\ Occurrences(rospack(SubSeq(text, MatchAt(text, i).j + 2,
                                   MatchAt(text, i).e - 1)),
                    SubSeq(text, i, MatchAt(text, i).e)) # {}

\* what the resolver does with the name of a node
C16_Step ==
  AtPlainNode =>
    /\ (exc' = NoExc /\ status' = "running") =>
         /\ Len(heap'[Top.self].nodes) = Len(heap[Top.self].nodes) + 1
         /\ NoExpression(Last(heap'[Top.self].nodes).name)
    /\ NoExpression(Cur.attrib["name"]) => NodeNamed(Cur.attrib["name"])
    /\ Cur.attrib["name"] = Sub("find", "r") \o << "/" >> \o Sub("find", "p")
         => NodeNamed(<< "/", "/", "q", "/", "/", "p" >>)
    /\ status' = "hung" => Reintroduces(Cur.attrib["name"])

\* C16: a text the resolver returns holds no expression $(keyword argument)
\* any more, the expressions brought in by a resolved value included; a text
\* without expression is returned as it is; the resolver stops unless the
\* value of an expression brings the same expression back.
C16_Resolver ==
  /\ [](\A text \in KeptTexts : NoExpression(text))
  /\ [][C16_Step]_vars

\* a node was named by a text whose first expression resolved to a value
\* that held another expression
C16_Witness ==
  /\ status = "done"
  /\ fs[heap[1].filename].elems
       = << NodeEl(<< "p" >>, << "d" >>,
                   Sub("find", "r") \o << "/" >> \o Sub("find", "p")) >>
  /\ Len(heap[1].nodes) = 1
  /\ heap[1].nodes[1].name = << "/", "/", "q", "/", "/", "p" >>

(***************************************************************************)
(* The registry of visited files                                           *)
(***************************************************************************)
\* the files whose parse is in progress: the objects of the frames
InProgress == { heap[stack[k].self].filename : k \in 1..Len(stack) }

\* the files whose parse has started in this run
Started == { parseLog[i].filename : i \in 1..Len(parseLog) }

\* the current element is an enabled include whose resolved path is the file
\* of a frame of the stack
AtIncludeOfAncestor(rnd) ==
  /\ AtElement("include")
  /\ parseInclude(Cur.attrib, heap[Top.self].args, rnd).ok
  /\ ~parseInclude(Cur.attrib, heap[Top.self].args, rnd).none
  /\ parseInclude(Cur.attrib, heap[Top.self].args, rnd).resolved \in InProgress

\* an include of a file in progress finds it visited: nothing is parsed and
\* an empty entity of that path is added with a cycle entry
C17_BackEdge ==
  \A rnd \in Rnds(Cur.attrib, heap[Top.self].args) :
    AtIncludeOfAncestor(rnd) =>
      LET resolved == parseInclude(Cur.attrib, heap[Top.self].args, rnd).resolved
      IN /\ resolved \in VISITED_LAUNCH_FILES
         /\ parseLog' = parseLog
         /\ stack' = Advance
         /\ Len(heap') = Len(heap) + 1
         /\ Last(heap').filename = resolved
         /\ Last(heap').hasVisited
         /\ heap'[Top.self].cycles = Append(heap[Top.self].cycles, resolved)
         /\ heap'[Top.self].includes
              = Append(heap[Top.self].includes, Len(heap'))

\* a file whose parse starts in this step is in the registry with the step
\* that pushes its first element
C17_AddedFirst ==
  \A f \in DOMAIN fs :
    (f \notin Started /\ f \in { parseLog'[i].filename : i \in 1..Len(parseLog') })
      => /\ f \in VISITED_LAUNCH_FILES'
         /\ f \notin InProgress

\* C17: the registry only grows; the path of a file is in it before any of
\* the file's elements is parsed, so every file whose parse has started or
\* is complete is a member; an include of a file whose parse is in progress
\* finds it visited.
C17_Registry ==
  /\ [](/\ Started \subseteq VISITED_LAUNCH_FILES
        /\ InProgress \subseteq VISITED_LAUNCH_FILES
        /\ \A o \in 1..Len(heap) : heap[o].filename \in VISITED_LAUNCH_FILES)
  /\ [][/\ VISITED_LAUNCH_FILES \subseteq VISITED_LAUNCH_FILES'
        /\ C17_AddedFirst
        /\ AtElement("include") => C17_BackEdge]_vars

\* the root is being parsed below an included file, and that file has just
\* included the root again
C17_Witness ==
  /\ status = "running" /\ exc = NoExc
  /\ RootFresh
  /\ Len(stack) = 2
  /\ Top.self # 1
  /\ heap[stack[2].self].filename = heap[1].filename
  /\ heap[Top.self].cycles = << heap[1].filename >>
  /\ Len(heap[Top.self].includes) = 1
  /\ IsStub(heap[Top.self].includes[1])
  /\ heap[heap[Top.self].includes[1]].filename = heap[1].filename

(***************************************************************************)
(* Failed includes                                                         *)
(***************************************************************************)
\* the objects that belong to the tree under construction
Attached ==
  UNION { Reachable(stack[k].self) : k \in 1..Len(stack) }
    \cup (IF heap = << >> THEN {} ELSE Reachable(1))

\* the objects a failed include left behind
Orphans == (1..Len(heap)) \ Attached

\* the files whose parse was started by an include and raised
Failed ==
  { parseLog[i].filename :
      i \in { j \in 1..Len(parseLog) : parseLog[j].id \in Orphans } }

\* the exception of a failed parse of an included file is being caught at
\* the include element
FailedIncludeCaught ==
  /\ Caught
  /\ exc.tag = "include"
  /\ exc.origin \in { "parse", "arg" }

\* the include is dropped and the registry keeps what the failed parse added
C18_Dropped ==
  FailedIncludeCaught =>
    /\ heap' = heap /\ stack' = stack
    /\ heap[Top.self].includes = exc.snap.obj.includes
    /\ heap[Top.self].cycles = exc.snap.obj.cycles
    /\ \E f \in Failed : f \in VISITED_LAUNCH_FILES' \ exc.snap.visited
    /\ \A o \in Orphans : heap[o].filename \in VISITED_LAUNCH_FILES'

\* a later enabled include of the path of a failed file
C18_Later ==
  AtElement("include") =>
    \A rnd \in Rnds(Cur.attrib, heap[Top.self].args) :
      LET r == parseInclude(Cur.attrib, heap[Top.self].args, rnd)
      IN (r.ok /\ ~r.none /\ r.resolved \in Failed) =>
           /\ parseLog' = parseLog
           /\ stack' = Advance
           /\ exc' = NoExc
           /\ Len(heap') = Len(heap) + 1
           /\ Last(heap').filename = r.resolved
           /\ Last(heap').hasVisited
           /\ Last(heap').includes = << >> /\ Last(heap').nodes = << >>
           /\ heap'[Top.self].cycles = Append(heap[Top.self].cycles, r.resolved)
           /\ heap'[Top.self].includes
                = Append(heap[Top.self].includes, Len(heap'))

\* C18: a failed include is not rolled back: the include whose file raised
\* while it was parsed (malformed XML, or an arg declaration error at its top
\* level) is dropped from the parent's include list, the paths of that file
\* and of the files its partial parse reached stay in the registry, and a
\* later enabled include of that path is recorded as a cycle and yields an
\* unparsed empty entity.
C18_NotRolledBack ==
  /\ [](Failed \subseteq VISITED_LAUNCH_FILES)
  /\ [][C18_Dropped /\ C18_Later]_vars

\* the root included the same failing file twice: the first include was
\* dropped, the second one left an empty entity and a cycle entry
C18_Witness ==
  /\ status = "done"
  /\ RootFresh
  /\ Len(parseLog) = 2
  /\ parseLog[2].filename \in Failed
  /\ Len(heap[1].includes) = 1
  /\ IsStub(heap[1].includes[1])
  /\ heap[heap[1].includes[1]].filename = parseLog[2].filename
  /\ heap[1].cycles = << parseLog[2].filename >>

=============================================================================
